---- MODULE Spec2Model ----
(***************************************************************************)
(* A model of rusty.py: the tagged containers Ok / Err / Success /         *)
(* Failure, the dispatch functions unwrap and success, the conversion      *)
(* decorators unwrap_return / failure_return and the strict decorators     *)
(* strict_unwrap_return / strict_failure_return.                           *)
(*                                                                         *)
(* Python values are written by their repr.  A container is a record       *)
(* [tag, content]; a value that is no container has tag "Bare".  What a    *)
(* call does is an outcome record: it returns a value or raises an         *)
(* exception, and it lists the handlers it invoked.                        *)
(*                                                                         *)
(* A return annotation is the sequence of its union arms, and the type     *)
(* parameter of an arm the sequence of its union members, both in the      *)
(* order typing.get_args yields them.  list(set(...)) in                   *)
(* strict_failure_return yields its members in an order the program does   *)
(* not control: every order is a possible outcome of decorating.           *)
(***************************************************************************)
EXTENDS Integers, Sequences, FiniteSets

\* ------------------------------------------------------------------ bounds

\* Deepest chain of nested function calls below the caller.
MaxDepth == 3

\* Most types listed inside one Ok[...], Err[...] or Failure[...].
MaxTypeArgs == 2

\* ------------------------------------------------------------------ values

\* The payloads, by repr: hashable ones (1, True, 'a', None; True == 1 as a
\* dict key) and unhashable ones (a list, a dict).
Payloads == {"1", "True", "'a'", "None", "[1]", "{'k': 1}"}

Ok(content) == [tag |-> "Ok", content |-> content]

Err(content) == [tag |-> "Err", content |-> content]

Failure(content) == [tag |-> "Failure", content |-> content]

Success == [tag |-> "Success", content |-> "-"]

Bare(content) == [tag |-> "Bare", content |-> content]

\* The absence of a value (the value slot of an exception that carries none).
NoValue == [tag |-> "-", content |-> "-"]

\* The content of a container may itself be a Success or a Failure (an
\* unwrap_return function that returns one gets it wrapped in Ok): such a
\* content is written by its repr and read back by ToValue.
FailureRepr(p) == "Failure(content=" \o p \o ")"

ToContent(v) ==
    CASE v.tag = "Bare" -> v.content
      [] v.tag = "Success" -> "Success()"
      [] v.tag = "Failure" -> FailureRepr(v.content)

ToValue(c) ==
    IF c = "Success()" THEN Success
    ELSE IF \E p \in Payloads : c = FailureRepr(p)
         THEN Failure(CHOOSE p \in Payloads : c = FailureRepr(p))
         ELSE Bare(c)

\* type(content).__name__
TypeOf(c) ==
    CASE c \in {"1"} -> "int"
      [] c = "True" -> "bool"
      [] c = "'a'" -> "str"
      [] c = "None" -> "NoneType"
      [] c = "[1]" -> "list"
      [] c = "{'k': 1}" -> "dict"
      [] c = "Success()" -> "Success"
      [] OTHER -> "Failure"

\* hash(content) succeeds: lists and dicts are unhashable, and so is a frozen
\* dataclass holding one.
Hashable(c) ==
    LET p == IF ToValue(c).tag = "Failure" THEN ToValue(c).content ELSE c
    IN  TypeOf(p) \notin {"list", "dict"}

\* The dict key a hashable content is looked up as: True == 1 and
\* hash(True) == hash(1), every other payload is equal to itself only.
DictKey(c) == IF c = "True" THEN "1" ELSE c

ok(content) == Ok(content)

err(content) == Err(content)

failure(content) == Failure(content)

\* ---------------------------------------------------------------- outcomes

Return(v, calls) == [kind |-> "return", exc |-> "-", val |-> v, calls |-> calls]

Raise(exc, carried) == [kind |-> "raise", exc |-> exc, val |-> carried, calls |-> <<>>]

ResultError(e) == Raise("ResultError", e)

EffectError(f) == Raise("EffectError", f)

\* ---------------------------------------------------------------- handlers

\* The caller's zero-argument handlers and what each returns.
Handlers == {"f", "g"}

CallHandler(h) == IF h = "f" THEN Bare("'a'") ELSE Bare("1")

\* typing.Any, the wildcard key.
Any == "Any"

HandlerKeys == {"1", Any}

\* err_handlers / failure_handlers: None (given = FALSE) or a dict.
NoMap == [given |-> FALSE, map |-> [k \in {} |-> "f"]]

HandlerMaps ==
    {NoMap} \cup
    {[given |-> TRUE, map |-> m] :
        m \in UNION {[D -> Handlers] : D \in SUBSET HandlerKeys}}

\* bool(handlers): None and the empty dict are falsy.
Truthy(handlers) == handlers.given /\ DOMAIN handlers.map # {}

\* The lookup of lines 75-79 / 90-94 for a content and a truthy-or-not map:
\* "keyed", "wildcard", "unhandled", or "TypeError" when `content in handlers`
\* has to hash an unhashable content.
Lookup(content, handlers) ==
    IF ~Truthy(handlers) THEN "unhandled"
    ELSE IF ~Hashable(content) THEN "TypeError"
    ELSE IF DictKey(content) \in DOMAIN handlers.map THEN "keyed"
    ELSE IF Any \in DOMAIN handlers.map THEN "wildcard"
    ELSE "unhandled"

Dispatch(content, handlers, unhandled) ==
    LET how == Lookup(content, handlers)
    IN  CASE how = "keyed" ->
               Return(CallHandler(handlers.map[DictKey(content)]),
                      <<handlers.map[DictKey(content)]>>)
          [] how = "wildcard" ->
               Return(CallHandler(handlers.map[Any]), <<handlers.map[Any]>>)
          [] how = "TypeError" -> Raise("TypeError", NoValue)
          [] OTHER -> unhandled

\* unwrap with the handlers consulted for an Ok as for an Err.
unwrap_ok_dispatched(result, err_handlers) ==
    CASE result.tag \in {"Err", "Ok"} /\ Truthy(err_handlers) ->
           Dispatch(result.content, err_handlers, ResultError(result))
      [] result.tag = "Err" -> ResultError(result)
      [] result.tag = "Ok" -> Return(ToValue(result.content), <<>>)
      [] OTHER -> Raise("InvalidResultError", NoValue)

\* unwrap whose first case matches any container with a content.
unwrap_any_content(result, err_handlers) ==
    CASE result.tag \in {"Err", "Failure"} ->
           Dispatch(result.content, err_handlers, ResultError(result))
      [] result.tag = "Ok" -> Return(ToValue(result.content), <<>>)
      [] OTHER -> Raise("InvalidResultError", NoValue)

unwrap(result, err_handlers) ==
    CASE result.tag = "Err" ->
           Dispatch(result.content, err_handlers, ResultError(result))
      [] result.tag = "Ok" -> Return(ToValue(result.content), <<>>)
      [] OTHER -> Raise("InvalidResultError", NoValue)

success(effect, failure_handlers) ==
    CASE effect.tag = "Failure" ->
           Dispatch(effect.content, failure_handlers, EffectError(effect))
      [] effect.tag = "Success" -> Return(Bare("None"), <<>>)
      [] OTHER -> Raise("InvalidEffectError", NoValue)

\* ---------------------------------------------------- conversion decorators

\* A function of a call chain: the decorator on it and what its body does
\* with the result x of the call it makes: `return x` or `return unwrap(x)`.
Decorators == {"none", "unwrap_return", "failure_return"}

Bodies == {"return", "unwrap"}

Frames == [deco : Decorators, body : Bodies]

\* An outcome with the handler invocations that preceded it.
After(calls, o) == [o EXCEPT !.calls = calls \o @]

\* The body of a frame, given the outcome of the call it makes: an exception
\* of the callee propagates through it.
RunBody(frame, inner) ==
    IF inner.kind = "raise" THEN inner
    ELSE IF frame.body = "unwrap" THEN After(inner.calls, unwrap(inner.val, NoMap))
    ELSE inner

\* unwrap_return without its `except ResultError`.
unwrap_return_no_except(o) ==
    IF o.kind = "return" /\ o.val.tag \notin {"Ok", "Err"}
    THEN Return(ok(ToContent(o.val)), o.calls)
    ELSE o

\* unwrap_return's _wrapper around the outcome o of func(*args, **kwargs).
unwrap_return(o) ==
    IF o.kind = "return"
    THEN IF o.val.tag \in {"Ok", "Err"} THEN o
         ELSE Return(ok(ToContent(o.val)), o.calls)
    ELSE IF o.exc = "ResultError" THEN Return(o.val, o.calls)
    ELSE o

\* failure_return's _wrapper around the outcome o of func(*args, **kwargs).
failure_return(o) ==
    IF o.kind = "raise" /\ o.exc = "EffectError" THEN Return(o.val, o.calls)
    ELSE o

Decorated(frame, o) ==
    CASE frame.deco = "unwrap_return" -> unwrap_return(o)
      [] frame.deco = "failure_return" -> failure_return(o)
      [] OTHER -> o

\* -------------------------------------------------------- type annotations

\* The types written inside Ok[...], Err[...] and Failure[...]: a class, the
\* wildcard typing.Any, and two parameterized generics.
DeclTypes == {"int", Any, "dict[str, int]", "list[int]"}

\* typing.get_origin of such a type: the class of a parameterized generic,
\* None for a class and for Any.
get_origin(t) ==
    CASE t = "dict[str, int]" -> "dict"
      [] t = "list[int]" -> "list"
      [] OTHER -> "None"

\* A type expression is the sequence of its members: one member is the type
\* itself, several are a union (X | Y), none is no expression at all (the
\* parameter of an unparameterized class).
TypeExprs ==
    UNION {{e \in [1..n -> DeclTypes] : \A i, j \in 1..n : e[i] = e[j] => i = j} :
           n \in 0..MaxTypeArgs}

is_union_type(typehint) == Len(typehint) > 1

\* typing.get_args: the members of a union, the parameters of an arm.
get_args(typehint) == typehint

extract_types(type_args) ==
    IF is_union_type(type_args) THEN get_args(type_args) ELSE <<type_args[1]>>

\* One arm of a return annotation: the class and the type expression it is
\* parameterized by (<<>> when it is not).
Arm(origin, param) == [origin |-> origin, param |-> param]

OtherArms == {Arm("Success", <<>>), Arm("int", <<>>)}

ResultArms ==
    {Arm(o, e) : o \in {"Ok", "Err"}, e \in TypeExprs} \cup OtherArms

EffectArms == {Arm("Failure", e) : e \in TypeExprs} \cup OtherArms

OneType(arms) == {a \in arms : Len(a.param) <= 1}

\* The return annotations over a set of arms: none, one class, a union of two
\* arms, a union of three (a union holds no arm twice).
NoAnnotation == [present |-> FALSE, arms |-> <<>>]

Annotation(arms) == [present |-> TRUE, arms |-> arms]

Range(seq) == {seq[i] : i \in DOMAIN seq}

\* == between two arms: the same class, parameterized by the same members
\* in any order (Ok[Any | int] == Ok[int | Any]: a union compares as a set).
SameArm(a, b) == a.origin = b.origin /\ Range(a.param) = Range(b.param)

\* typing.Union keeps one arm of every group of == arms, so the arms of a
\* union are pairwise unequal.
Distinct(seq) == \A i, j \in DOMAIN seq : SameArm(seq[i], seq[j]) => i = j

AnnotationsOver(arms) ==
    {NoAnnotation} \cup
    {Annotation(<<a>>) : a \in arms} \cup
    {Annotation(x) : x \in {y \in arms \X arms : Distinct(y)}} \cup
    {Annotation(x) :
        x \in {y \in OneType(arms) \X OneType(arms) \X OtherArms : Distinct(y)}}

\* isinstance(content, t): "yes", "no", or "TypeError" when t is None, Any
\* or a parameterized generic.  bool is a subclass of int.
isinstance(content, t) ==
    IF t \in {"None", Any, "dict[str, int]", "list[int]"} THEN "TypeError"
    ELSE IF TypeOf(content) = t \/ (TypeOf(content) = "bool" /\ t = "int")
         THEN "yes"
         ELSE "no"

\* for valid_type in types: if isinstance(content, valid_type) or
\* valid_type is Any: return ...  -- "accept", "reject" (the loop ends) or
\* "TypeError" (isinstance raises before `valid_type is Any` is looked at).
RECURSIVE CheckTypes(_, _)
CheckTypes(content, types) ==
    IF types = <<>> THEN "reject"
    ELSE CASE isinstance(content, Head(types)) = "TypeError" -> "TypeError"
           [] isinstance(content, Head(types)) = "yes" -> "accept"
           [] Head(types) = Any -> "accept"
           [] OTHER -> CheckTypes(content, Tail(types))

MapOrigin(types) == [i \in 1..Len(types) |-> get_origin(types[i])]

\* ------------------------------------------------------- strict decorators

\* What decorating gives: a wrapper with the type lists it closes over, or
\* the exception raised at decoration time.
Wrapper(kind, ok_types, err_types, failure_types) ==
    [made |-> TRUE, kind |-> kind, exc |-> "-", ok_types |-> ok_types,
     err_types |-> err_types, failure_types |-> failure_types]

DecorationError(exc) ==
    [made |-> FALSE, kind |-> "-", exc |-> exc, ok_types |-> <<>>,
     err_types |-> <<>>, failure_types |-> <<>>]

NoWrapper == DecorationError("-")

\* strict_unwrap_return without the check of the second arm (lines 157-161).
strict_unwrap_return_first_arm_only(return_type) ==
    IF ~return_type.present THEN DecorationError("RustyError")
    ELSE IF ~is_union_type(return_type.arms) \/ Len(get_args(return_type.arms)) # 2
    THEN DecorationError("RustyError")
    ELSE IF return_type.arms[1].origin # "Ok" THEN DecorationError("RustyError")
    ELSE IF return_type.arms[1].param = <<>> \/ return_type.arms[2].param = <<>>
    THEN DecorationError("IndexError")
    ELSE Wrapper("strict_unwrap_return",
                 MapOrigin(extract_types(return_type.arms[1].param)),
                 MapOrigin(extract_types(return_type.arms[2].param)), <<>>)

\* strict_unwrap_return(func), lines 143-168, for func's return annotation.
strict_unwrap_return(return_type) ==
    IF ~return_type.present THEN DecorationError("RustyError")
    ELSE IF ~is_union_type(return_type.arms) \/ Len(get_args(return_type.arms)) # 2
    THEN DecorationError("RustyError")
    ELSE LET ok_type == return_type.arms[1]
             err_type == return_type.arms[2]
         IN  IF ok_type.origin # "Ok" THEN DecorationError("RustyError")
             ELSE IF err_type.origin # "Err" THEN DecorationError("RustyError")
             ELSE IF ok_type.param = <<>> \/ err_type.param = <<>>
             THEN DecorationError("IndexError")
             ELSE Wrapper("strict_unwrap_return",
                          MapOrigin(extract_types(ok_type.param)),
                          MapOrigin(extract_types(err_type.param)), <<>>)

\* The type list both match statements of the wrapper loop over.
CheckedTypes(w) == w.ok_types

\* strict_unwrap_return's _wrapper, lines 171-195, around the outcome o of
\* func(*args, **kwargs).
StrictUnwrapCall(w, o) ==
    IF o.kind = "return"
    THEN IF o.val.tag \in {"Ok", "Err"}
         THEN CASE CheckTypes(o.val.content, CheckedTypes(w)) = "accept" -> o
                [] CheckTypes(o.val.content, CheckedTypes(w)) = "TypeError" ->
                     Raise("TypeError", NoValue)
                [] OTHER -> Raise("RustyError", NoValue)
         ELSE Raise("RustyError", NoValue)
    ELSE IF o.exc = "ResultError"
    THEN CASE CheckTypes(o.val.content, CheckedTypes(w)) = "accept" ->
                Return(o.val, o.calls)
           [] CheckTypes(o.val.content, CheckedTypes(w)) = "TypeError" ->
                Raise("TypeError", NoValue)
           [] OTHER -> Raise("RustyError", NoValue)
    ELSE o

\* The Failure arms' types, in annotation order (lines 209-214).
RECURSIVE CollectFailureTypes(_)
CollectFailureTypes(arms) ==
    IF arms = <<>> THEN <<>>
    ELSE (IF Head(arms).origin = "Failure" THEN extract_types(Head(arms).param)
          ELSE <<>>) \o CollectFailureTypes(Tail(arms))

\* list(set(types)): the distinct types, in whatever order the set yields.
ListOfSet(types) ==
    {l \in [1..Cardinality(Range(types)) -> Range(types)] : Range(l) = Range(types)}

\* strict_failure_return(func), lines 206-215: the wrappers decorating can
\* give (one per order of failure_types), or the exception it raises.
strict_failure_return(return_type) ==
    IF ~return_type.present THEN {DecorationError("RustyError")}
    ELSE IF \E i \in DOMAIN return_type.arms :
                /\ return_type.arms[i].origin = "Failure"
                /\ return_type.arms[i].param = <<>>
    THEN {DecorationError("IndexError")}
    ELSE {Wrapper("strict_failure_return", <<>>, <<>>, l) :
            l \in ListOfSet(CollectFailureTypes(
                     IF is_union_type(return_type.arms)
                     THEN get_args(return_type.arms)
                     ELSE <<return_type.arms[1]>>))}

\* strict_failure_return's _wrapper, lines 218-240, around the outcome o of
\* func(*args, **kwargs).
StrictFailureCall(w, o) ==
    IF o.kind = "return"
    THEN IF o.val.tag = "Failure"
         THEN CASE CheckTypes(o.val.content, w.failure_types) = "accept" -> o
                [] CheckTypes(o.val.content, w.failure_types) = "TypeError" ->
                     Raise("TypeError", NoValue)
                [] OTHER -> Raise("RustyError", NoValue)
         ELSE o
    ELSE IF o.exc = "EffectError"
    THEN CASE CheckTypes(o.val.content, w.failure_types) = "accept" ->
                Return(o.val, o.calls)
           [] CheckTypes(o.val.content, w.failure_types) = "TypeError" ->
                Raise("TypeError", NoValue)
           [] OTHER -> Raise("RustyError", NoValue)
    ELSE o

\* ------------------------------------------------------------------- state

VARIABLES
    pc,        \* "idle", "calling" (functions being entered), "returning"
               \* (functions being left), "decorated", "done"
    call,      \* the innermost call made: "unwrap", "success", "value", ...
    arg,       \* the value it was applied to
    handlers,  \* the handler map it was given
    out,       \* the outcome in flight: what the last call returned or raised
    orig,      \* the payload a wrap / unwrap cycle started from
    chain,     \* the functions entered, outermost first
    level,     \* how many of them have not returned yet
    annotation,\* the return annotation of the function given to a strict decorator
    wrapper,   \* what that decorator gave
    body,      \* what the decorated function's body did when called
    runs       \* how many times that body has run

vars == <<pc, call, arg, handlers, out, orig, chain, level,
          annotation, wrapper, body, runs>>

strictVars == <<annotation, wrapper, body, runs>>

\* The values a caller can hand to unwrap or success.
Values ==
    {Ok(p) : p \in Payloads} \cup {Err(p) : p \in Payloads} \cup
    {Failure(p) : p \in Payloads} \cup {Bare(p) : p \in Payloads} \cup {Success}

Idle == Return(Bare("None"), <<>>)

Init ==
    /\ pc = "idle"
    /\ call = "-"
    /\ arg = Bare("None")
    /\ handlers = NoMap
    /\ out = Idle
    /\ orig = "None"
    /\ chain = <<>>
    /\ level = 0
    /\ annotation = NoAnnotation
    /\ wrapper = NoWrapper
    /\ body = Idle
    /\ runs = 0

\* A function of the chain is entered: it makes the next call.
Enter ==
    /\ pc \in {"idle", "calling"}
    /\ Len(chain) < MaxDepth
    /\ \E frame \in Frames :
        /\ chain' = Append(chain, frame)
        /\ level' = level + 1
    /\ pc' = "calling"
    /\ UNCHANGED <<call, arg, handlers, out, orig, strictVars>>

\* Where control goes once the innermost call has ended.
Landed == IF chain = <<>> THEN "done" ELSE "returning"

\* unwrap(v, err_handlers=h), by the caller or by the innermost function.
CallUnwrap ==
    /\ pc \in {"idle", "calling"}
    /\ \E v \in Values, h \in HandlerMaps :
        /\ call' = "unwrap"
        /\ arg' = v
        /\ handlers' = h
        /\ out' = unwrap(v, h)
        /\ orig' = v.content
    /\ pc' = Landed
    /\ UNCHANGED <<chain, level, strictVars>>

\* success(v, failure_handlers=h), by the caller or by the innermost function.
CallSuccess ==
    /\ pc \in {"idle", "calling"}
    /\ \E v \in Values, h \in HandlerMaps :
        /\ call' = "success"
        /\ arg' = v
        /\ handlers' = h
        /\ out' = success(v, h)
        /\ orig' = v.content
    /\ pc' = Landed
    /\ UNCHANGED <<chain, level, strictVars>>

\* The innermost function has a plain value in hand.
GiveValue ==
    /\ pc = "calling"
    /\ \E v \in Values :
        /\ call' = "value"
        /\ arg' = v
        /\ out' = Return(v, <<>>)
        /\ orig' = v.content
    /\ handlers' = NoMap
    /\ pc' = "returning"
    /\ UNCHANGED <<chain, level, strictVars>>

\* The innermost live function ends: its body, then its decorator's wrapper.
Leave ==
    /\ pc = "returning"
    /\ level > 0
    /\ out' = Decorated(chain[level], RunBody(chain[level], out))
    /\ level' = level - 1
    /\ pc' = IF level = 1 THEN "done" ELSE "returning"
    /\ UNCHANGED <<call, arg, handlers, orig, chain, strictVars>>

\* Re-wrap what the last unwrap returned with ok and unwrap it again.
Rewrap ==
    /\ pc = "done"
    /\ chain = <<>>
    /\ call \in {"unwrap", "rewrap"}
    /\ arg.tag = "Ok"
    /\ out.kind = "return"
    /\ out.val.tag = "Bare"
    /\ \E h \in HandlerMaps :
        /\ handlers' = h
        /\ out' = unwrap(ok(out.val.content), h)
    /\ call' = "rewrap"
    /\ arg' = ok(out.val.content)
    /\ UNCHANGED <<pc, orig, chain, level, strictVars>>

\* What the body of a decorated function can do: return any value, or let a
\* ResultError / EffectError of an inner unwrap / success, or another
\* exception, propagate.
BodyOutcomes ==
    {Return(v, <<>>) : v \in Values} \cup
    {ResultError(err(p)) : p \in Payloads} \cup
    {EffectError(failure(p)) : p \in Payloads} \cup
    {Raise("InvalidResultError", NoValue)}

\* @strict_unwrap_return on a function with return annotation a.
DecorateStrictUnwrap ==
    /\ pc = "idle"
    /\ \E a \in AnnotationsOver(ResultArms) :
        /\ annotation' = a
        /\ wrapper' = strict_unwrap_return(a)
        /\ out' = IF strict_unwrap_return(a).made THEN Idle
                  ELSE Raise(strict_unwrap_return(a).exc, NoValue)
    /\ call' = "strict_unwrap_return"
    /\ pc' = "decorated"
    /\ UNCHANGED <<arg, handlers, orig, chain, level, body, runs>>

\* @strict_failure_return on a function with return annotation a.
DecorateStrictFailure ==
    /\ pc = "idle"
    /\ \E a \in AnnotationsOver(EffectArms) :
        \E w \in strict_failure_return(a) :
            /\ annotation' = a
            /\ wrapper' = w
            /\ out' = IF w.made THEN Idle ELSE Raise(w.exc, NoValue)
    /\ call' = "strict_failure_return"
    /\ pc' = "decorated"
    /\ UNCHANGED <<arg, handlers, orig, chain, level, body, runs>>

\* A call of the wrapper strict_unwrap_return gave: the body runs, then the
\* wrapper checks what it did.
CallStrictUnwrap ==
    /\ pc = "decorated"
    /\ wrapper.made
    /\ wrapper.kind = "strict_unwrap_return"
    /\ \E b \in BodyOutcomes :
        /\ body' = b
        /\ out' = StrictUnwrapCall(wrapper, b)
    /\ runs' = runs + 1
    /\ pc' = "done"
    /\ UNCHANGED <<call, arg, handlers, orig, chain, level, annotation, wrapper>>

\* A call of the wrapper strict_failure_return gave.
CallStrictFailure ==
    /\ pc = "decorated"
    /\ wrapper.made
    /\ wrapper.kind = "strict_failure_return"
    /\ \E b \in BodyOutcomes :
        /\ body' = b
        /\ out' = StrictFailureCall(wrapper, b)
    /\ runs' = runs + 1
    /\ pc' = "done"
    /\ UNCHANGED <<call, arg, handlers, orig, chain, level, annotation, wrapper>>

Next ==
    \/ Enter
    \/ CallUnwrap
    \/ CallSuccess
    \/ GiveValue
    \/ Leave
    \/ Rewrap
    \/ DecorateStrictUnwrap
    \/ DecorateStrictFailure
    \/ CallStrictUnwrap
    \/ CallStrictFailure

Spec == Init /\ [][Next]_vars

\* ------------------------------------------------------------------ claims

\* The innermost call f has just ended and no function has been left since:
\* out is what f itself returned or raised.
JustCalled(f) == call = f /\ pc \in {"returning", "done"} /\ level = Len(chain)

\* Python's == between a dict key and a payload: equal reprs, and 1 == True.
PyEq(k, v) == k = v \/ (k = "1" /\ v = "True")

\* v is a key of the handler map h (h may be None).
IsKey(v, h) == h.given /\ \E k \in DOMAIN h.map : PyEq(k, v)

KeyOf(v, h) == CHOOSE k \in DOMAIN h.map : PyEq(k, v)

HasWildcard(h) == h.given /\ Any \in DOMAIN h.map

Invoked(name) == Return(CallHandler(name), <<name>>)

\* C1: unwrap(ok(v), err_handlers=h) returns v itself and invokes no handler,
\* for every payload v and every handler map h; and in the cycle
\* unwrap(ok(unwrap(ok(v)))) both unwrap steps yield v.
C1_UnwrapOk ==
    ((JustCalled("unwrap") \/ JustCalled("rewrap")) /\ arg.tag = "Ok") =>
        /\ out = Return(Bare(arg.content), <<>>)
        /\ out.val.content = orig

C1_Witness ==
    /\ JustCalled("rewrap")
    /\ arg = Ok("[1]")
    /\ HasWildcard(handlers)
    /\ out.val = Bare("[1]")

\* C2: for every payload v, unwrap(err(v), err_handlers=h) returns
\* h[v]() when v is a key of h and otherwise h[Any]() when the wildcard is a
\* key; exactly one handler is invoked, once, and no error is raised.
C2_ErrDispatched ==
    (JustCalled("unwrap") /\ arg.tag = "Err") =>
        /\ IsKey(arg.content, handlers) =>
             out = Invoked(handlers.map[KeyOf(arg.content, handlers)])
        /\ (~IsKey(arg.content, handlers) /\ HasWildcard(handlers)) =>
             out = Invoked(handlers.map[Any])

\* No handler of h matches v: no map, an empty map, or neither v nor the
\* wildcard among the keys.
NoneMatches(v, h) == ~Truthy(h) \/ (~IsKey(v, h) /\ ~HasWildcard(h))

\* C3: for every payload v, unwrap(err(v)) with no handler map, an
\* empty one, or one holding neither the key v nor the wildcard fails with a
\* ResultError carrying err(v); no handler is invoked, nothing is returned.
C3_UnhandledErrRaises ==
    (JustCalled("unwrap") /\ arg.tag = "Err" /\ NoneMatches(arg.content, handlers)) =>
        out = Raise("ResultError", arg)

\* C4: success(Success()) returns the no-error indicator, raising
\* nothing and invoking no handler, whatever the handler map; for every
\* payload v, success(failure(v)) fails with an EffectError carrying
\* failure(v) when the handlers are empty or absent, and returns the result
\* of the handler keyed on v, or failing that of the wildcard handler.
C4_SuccessDispatched ==
    JustCalled("success") =>
        /\ arg = Success => out = Return(Bare("None"), <<>>)
        /\ (arg.tag = "Failure" /\ ~Truthy(handlers)) =>
             out = Raise("EffectError", arg)
        /\ (arg.tag = "Failure" /\ IsKey(arg.content, handlers)) =>
             out = Invoked(handlers.map[KeyOf(arg.content, handlers)])
        /\ (arg.tag = "Failure" /\ ~IsKey(arg.content, handlers)
                /\ HasWildcard(handlers)) =>
             out = Invoked(handlers.map[Any])

\* The functions of the chain that have returned, innermost last.
Left == (level + 1)..Len(chain)

\* C5: when the innermost call is unwrap on err(v) with no matching handler
\* and the ResultError is caught nowhere but by unwrap_return (every function
\* left so far is undecorated or decorated with unwrap_return, and either
\* returns what it got or unwraps it), then each time a function decorated
\* with unwrap_return has just returned, it returned err(v) and did not raise.
C5_UnwrapReturnChain ==
    (/\ pc \in {"returning", "done"}
     /\ call = "unwrap"
     /\ arg.tag = "Err"
     /\ (~Truthy(handlers) \/ (Hashable(arg.content)
            /\ ~IsKey(arg.content, handlers) /\ ~HasWildcard(handlers)))
     /\ Left # {}
     /\ \A i \in Left : chain[i].deco \in {"none", "unwrap_return"}
     /\ chain[level + 1].deco = "unwrap_return") =>
        out = Return(arg, <<>>)

C5_Witness ==
    /\ pc = "done"
    /\ call = "unwrap"
    /\ arg = Err("[1]")
    /\ handlers = NoMap
    /\ Len(chain) = 3
    /\ chain[1] = [deco |-> "unwrap_return", body |-> "unwrap"]
    /\ chain[2] = [deco |-> "unwrap_return", body |-> "return"]
    /\ chain[3] = [deco |-> "none", body |-> "return"]
    /\ out = Return(Err("[1]"), <<>>)

\* The annotations C6 lists: missing, not a union, a union of other than two
\* arms, a first arm that is not Ok, a second arm that is not Err.
NotOkErrUnion(a) ==
    \/ ~a.present
    \/ Len(a.arms) # 2
    \/ a.arms[1].origin # "Ok"
    \/ a.arms[2].origin # "Err"

\* C6: strict_unwrap_return applied to a function whose return annotation is
\* missing, not a union, a union of other than two arms, or has a first arm
\* that is not Ok or a second arm that is not Err, raises RustyError at
\* decoration time: no wrapper is produced and the body never runs.
C6_DecorationFails ==
    (call = "strict_unwrap_return" /\ NotOkErrUnion(annotation)) =>
        /\ ~wrapper.made
        /\ wrapper.exc = "RustyError"
        /\ pc = "decorated"
        /\ out = Raise("RustyError", NoValue)
        /\ runs = 0

C6_Witness ==
    /\ call = "strict_unwrap_return"
    /\ annotation.present
    /\ Len(annotation.arms) = 2
    /\ annotation.arms[1] = Arm("Err", <<"list[int]">>)
    /\ annotation.arms[2] = Arm("Ok", <<"dict[str, int]">>)
    /\ ~wrapper.made
    /\ out = Raise("RustyError", NoValue)

\* The class a declared type stands for, and whether a content's runtime
\* type conforms to a declared type (Any admits everything, a subclass
\* conforms to its base class).
ClassOf(t) == IF get_origin(t) = "None" THEN t ELSE get_origin(t)

Conforms(content, t) ==
    \/ t = Any
    \/ TypeOf(content) = ClassOf(t)
    \/ (TypeOf(content) = "bool" /\ ClassOf(t) = "int")

ConformsToAny(content, types) == \E i \in DOMAIN types : Conforms(content, types[i])

\* C7: under strict_unwrap_return with return type Ok[T1|..|Tn] | Err[R], a
\* call whose body returns Ok(content) yields that Ok unchanged when the
\* runtime type of content is one of T1..Tn, and raises RustyError otherwise
\* (stated for T1..Tn that are types proper, the wildcard left aside).
C7_OkContentChecked ==
    (/\ call = "strict_unwrap_return"
     /\ pc = "done"
     /\ body.kind = "return"
     /\ body.val.tag = "Ok"
     /\ Any \notin Range(annotation.arms[1].param)) =>
        IF ConformsToAny(body.val.content, annotation.arms[1].param)
        THEN out = Return(body.val, <<>>)
        ELSE out = Raise("RustyError", NoValue)

\* C8: under strict_unwrap_return with return type Ok[T] | Err[R], an
\* Err(content) the body returns, or that a ResultError it lets propagate
\* carries, is checked against R, not T: it is returned unchanged when the
\* runtime type of content is in R or R is the wildcard, and the call raises
\* RustyError otherwise, even if the type is in T (stated for T and R made of
\* parameterized generics, which is where the wrapper's isinstance checks
\* work at all: see C7).
C8_ErrContentCheckedAgainstErrTypes ==
    (/\ call = "strict_unwrap_return"
     /\ pc = "done"
     /\ body.val.tag = "Err"
     /\ \A t \in Range(annotation.arms[1].param) \cup Range(annotation.arms[2].param) :
            get_origin(t) # "None"
     /\ (body.kind = "return" \/ body.exc = "ResultError")) =>
        IF ConformsToAny(body.val.content, annotation.arms[2].param)
        THEN out = Return(body.val, <<>>)
        ELSE out = Raise("RustyError", NoValue)

\* C9: unwrap of a value that is neither an Ok nor an Err raises
\* InvalidResultError, and success of a value that is neither a Success nor a
\* Failure raises InvalidEffectError; no handler is invoked, whatever the
\* handler map holds, and the error is no ResultError / EffectError.
C9_ClosedVariants ==
    /\ (JustCalled("unwrap") /\ arg.tag \notin {"Ok", "Err"}) =>
          out = Raise("InvalidResultError", NoValue)
    /\ (JustCalled("success") /\ arg.tag \notin {"Success", "Failure"}) =>
          out = Raise("InvalidEffectError", NoValue)

C9_Witness ==
    /\ JustCalled("unwrap")
    /\ arg = Failure("1")
    /\ handlers.given
    /\ DOMAIN handlers.map = {"1", Any}
    /\ out.exc = "InvalidResultError"

\* The failure-payload types an annotation declares: those of its Failure
\* arms.
DeclaredFailureTypes(a) == CollectFailureTypes(a.arms)

\* C10: under strict_failure_return with declared failure-payload types F,
\* every value the body returns that is no Failure passes through unchanged;
\* a Failure(content) that is returned, or carried by a propagated
\* EffectError, is returned unchanged when the runtime type of content is in
\* F or F holds the wildcard, and the call raises RustyError otherwise (so
\* with F empty every Failure is rejected).
C10_FailureContentChecked ==
    (call = "strict_failure_return" /\ pc = "done") =>
        /\ (body.kind = "return" /\ body.val.tag # "Failure") => out = body
        /\ (body.val.tag = "Failure"
                /\ (body.kind = "return" \/ body.exc = "EffectError")) =>
             IF ConformsToAny(body.val.content, DeclaredFailureTypes(annotation))
             THEN out = Return(body.val, <<>>)
             ELSE out = Raise("RustyError", NoValue)

====
